---- MODULE Spec2Model ----
(***************************************************************************)
(* Model of ShippingOrderGenerator (src/app.py).                           *)
(*                                                                         *)
(* Text is a tuple of one-character strings (<<"7", ".", "0">> is "7.0").  *)
(* A table cell is either Missing (pandas NaN / None) or the text that     *)
(* str() gives for the cell's value.  An optional value (Python's          *)
(* Optional[T]) is <<>> for None and <<v>> for a value.  A result that may *)
(* be an exception is a record [exc, val].                                 *)
(***************************************************************************)
EXTENDS Integers, Sequences, FiniteSets, TLC

VARIABLES
    pc,                \* position of the scenario
    sku_id_df,         \* product-id reference table: sequence of rows
    col_mapping,       \* recognised columns of the reference table
    product_id_index,  \* _product_id_index: id text -> row number
    call,              \* the last call made: its name and its arguments
    found_row,         \* what the last _get_row_by_product_id returned (or raised)
    result,            \* what the last calculate_total_quantity returned (or raised)
    supplier_group,    \* what the last get_supplier_group returned
    orders,            \* the list of order lines passed to merge_orders
    merged,            \* what merge_orders returned
    lines_in,          \* the list of order lines passed to group_by_warehouse
    groups,            \* what group_by_warehouse returned
    main_df,           \* the order table: sequence of rows
    main_cols,         \* main_df.columns: the columns of the order table
    supplier_sku_df,   \* the supplier table: sequence of rows of cells
    sku_name_df,       \* the name table: sequence of <<key cell, name cell>>
    barcode_files_dict,\* barcode files: sequence of [key |-> name, val |-> bytes]
    image_files_dict,  \* image files: sequence of [key |-> name, val |-> bytes]
    supplier_sku_cache,\* _supplier_sku_cache
    image_cache,       \* _image_cache
    stores,            \* generate_all_orders: list(main_df.groupby(store_col))
    store_idx,         \* generate_all_orders: the store being processed
    supplier_orders,   \* what process_order_data returned for that store
    abnormal_orders,
    bucket_idx,        \* the number of supplier buckets already written
    documents,         \* the workbooks written so far, with their barcode files
    progress,          \* the calls of progress_callback
    outcome,           \* what generate_all_orders returned or raised
    error              \* the columns named by st.error: <<>> or <<columns>>

calcVars == <<sku_id_df, col_mapping, product_id_index, call, found_row, result,
              supplier_group>>

mergeVars == <<orders, merged, lines_in, groups>>

tableVars == <<supplier_sku_df, sku_name_df, barcode_files_dict, image_files_dict>>

cacheVars == <<main_df, main_cols, supplier_sku_cache, image_cache>>

runVars == <<stores, store_idx, supplier_orders, abnormal_orders, bucket_idx, documents,
             progress, outcome, error>>

vars == <<pc, calcVars, mergeVars, tableVars, cacheVars, runVars>>

----------------------------------------------------------------------------
(* Bounds *)
MaxRefRows == 2

MaxLines == 3

----------------------------------------------------------------------------
(* Text *)

Missing == <<"<NaN>">>

\* None
NoneVal == <<"<None>">>

\* position of key among the entries of a dict, 0 when it is not there
KeyPos(entries, key) ==
    IF \E i \in 1..Len(entries) : entries[i].key = key
    THEN CHOOSE i \in 1..Len(entries) : entries[i].key = key
    ELSE 0

Digits == <<"0", "1", "2", "3", "4", "5", "6", "7", "8", "9">>

IsDigit(c) == \E i \in 1..Len(Digits) : Digits[i] = c

DigitVal(c) == (CHOOSE i \in 1..Len(Digits) : Digits[i] = c) - 1

AllDigits(s) == \A i \in 1..Len(s) : IsDigit(s[i])

RECURSIVE DecVal(_)
DecVal(ds) ==
    IF ds = <<>> THEN 0
    ELSE 10 * DecVal(SubSeq(ds, 1, Len(ds) - 1)) + DigitVal(ds[Len(ds)])

RECURSIVE Pow10(_)
Pow10(n) == IF n = 0 THEN 1 ELSE 10 * Pow10(n - 1)

RECURSIVE NatStr(_)
NatStr(n) ==
    IF n < 10 THEN <<Digits[n + 1]>>
    ELSE NatStr(n \div 10) \o <<Digits[(n % 10) + 1]>>

\* str(n) for a Python int
PyStr(n) == IF n < 0 THEN <<"-">> \o NatStr(-n) ELSE NatStr(n)

RECURSIVE LStrip(_)
LStrip(s) == IF s # <<>> /\ s[1] = " " THEN LStrip(Tail(s)) ELSE s

RECURSIVE RStrip(_)
RStrip(s) ==
    IF s # <<>> /\ s[Len(s)] = " " THEN RStrip(SubSeq(s, 1, Len(s) - 1)) ELSE s

\* str.strip()
Strip(s) == RStrip(LStrip(s))

\* needle in hay (Python's substring test)
Contains(hay, needle) ==
    \E i \in 1..(Len(hay) - Len(needle) + 1) :
        SubSeq(hay, i, i + Len(needle) - 1) = needle

\* position of the first c in s, 0 when there is none
FirstPos(s, c) ==
    IF \E i \in 1..Len(s) : s[i] = c
    THEN CHOOSE i \in 1..Len(s) : s[i] = c /\ \A j \in 1..(i - 1) : s[j] # c
    ELSE 0

----------------------------------------------------------------------------
(* Results *)

Ok(v) == [exc |-> "", val |-> v]

Raised(e) == [exc |-> e, val |-> 0]

\* float(text): [kind, num, den] with kind finite (the value num/den), inf, nan,
\* or error (ValueError).  The grammar covered: optional sign, then inf, nan, or
\* decimal digits with at most one point (no exponent).
FloatOfParts(neg, ip, fp) ==
    IF AllDigits(ip) /\ AllDigits(fp) /\ Len(ip) + Len(fp) > 0
    THEN [kind |-> "finite",
          num  |-> IF neg THEN -DecVal(ip \o fp) ELSE DecVal(ip \o fp),
          den  |-> Pow10(Len(fp))]
    ELSE [kind |-> "error", num |-> 0, den |-> 1]

FloatOfBody(neg, body, p) ==
    IF body = <<"i", "n", "f">> THEN [kind |-> "inf", num |-> IF neg THEN -1 ELSE 1, den |-> 1]
    ELSE IF body = <<"n", "a", "n">> THEN [kind |-> "nan", num |-> 0, den |-> 1]
    ELSE FloatOfParts(neg, IF p = 0 THEN body ELSE SubSeq(body, 1, p - 1),
                           IF p = 0 THEN <<>> ELSE SubSeq(body, p + 1, Len(body)))

FloatOfSigned(neg, body) == FloatOfBody(neg, body, FirstPos(body, "."))

FloatOfStripped(s) ==
    FloatOfSigned(s # <<>> /\ s[1] = "-",
                  IF s # <<>> /\ s[1] \in {"-", "+"} THEN Tail(s) ELSE s)

PyFloat(text) == FloatOfStripped(Strip(text))

\* int(f) for a finite float: truncation toward zero
PyInt(f) == IF f.num >= 0 THEN f.num \div f.den ELSE -((-f.num) \div f.den)

\* int(f): a value, ValueError (NaN) or OverflowError (an infinity)
IntOf(f) ==
    CASE f.kind = "finite" -> Ok(PyInt(f))
      [] f.kind = "inf"    -> Raised("OverflowError")
      [] OTHER             -> Raised("ValueError")

\* int(float(text)); float(text) raises ValueError when text is not a number
IntOfFloat(text) == IntOf(PyFloat(text))

\* _safe_str
safe_str(value) == IF value = Missing THEN <<>> ELSE Strip(value)

\* _safe_int's try block: ValueError is caught, OverflowError is not
CatchValueError(r) == IF r.exc = "ValueError" THEN Ok(0) ELSE r

\* _safe_int
safe_int(value) == IF value = Missing THEN Ok(0) ELSE CatchValueError(IntOfFloat(value))

----------------------------------------------------------------------------
(* Reference index: the product-id table *)

EmptyMap == [k \in {} |-> 0]

\* d[k] = v for a Python dict
Put(d, k, v) == [x \in (DOMAIN d) \cup {k} |-> IF x = k THEN v ELSE d[x]]

NoRow == [exc |-> "", val |-> <<>>]

RowRaised(e) == [exc |-> e, val |-> <<>>]

\* one row of _build_product_id_index: n is int(float(product_id))
IndexRow(idx, i, product_id, n) ==
    Put(IF n.exc = "" THEN Put(idx, PyStr(n.val), i) ELSE idx, product_id, i)

\* _build_product_id_index from row i on: the index, or the exception that ends
\* the construction
RECURSIVE build_product_id_index(_, _, _)
build_product_id_index(df, i, idx) ==
    IF i > Len(df) THEN [exc |-> "", val |-> idx]
    ELSE IF df[i].id = Missing THEN build_product_id_index(df, i + 1, idx)
    ELSE IF IntOfFloat(safe_str(df[i].id)).exc = "OverflowError"
         THEN [exc |-> "OverflowError", val |-> EmptyMap]
    ELSE build_product_id_index(df, i + 1,
             IndexRow(idx, i, safe_str(df[i].id), IntOfFloat(safe_str(df[i].id))))

RowAt(idx, key) == IF key \in DOMAIN idx THEN [exc |-> "", val |-> <<idx[key]>>] ELSE NoRow

\* the second lookup of _get_row_by_product_id: n is int(float(product_id_str))
GetRowNormalized(idx, n) ==
    IF n.exc = "OverflowError" THEN RowRaised(n.exc)
    ELSE IF n.exc = "ValueError" THEN NoRow
    ELSE RowAt(idx, PyStr(n.val))

GetRowByString(idx, product_id_str) ==
    IF product_id_str = <<>> THEN NoRow
    ELSE IF product_id_str \in DOMAIN idx THEN RowAt(idx, product_id_str)
    ELSE GetRowNormalized(idx, IntOfFloat(product_id_str))

\* _get_row_by_product_id: <<>> (None) or <<row number>>
get_row_by_product_id(idx, product_id) == GetRowByString(idx, safe_str(product_id))

----------------------------------------------------------------------------
(* Quantity calculator *)

\* _extract_sku_prefix
extract_sku_prefix(sku) ==
    LET sku_str == safe_str(sku)
        p       == FirstPos(sku_str, "-")
    IN  IF p = 0 THEN sku_str ELSE SubSeq(sku_str, 1, p - 1)

\* _get_multiplier_from_sku: re.search(r'-(\d+)[Xx]$', sku); k is where the digit
\* run that ends before the last character starts
get_multiplier_from_sku(sku) ==
    LET n == Len(sku)
        k == CHOOSE j \in 1..n :
                 /\ \A i \in j..(n - 1) : IsDigit(sku[i])
                 /\ (j = 1 \/ ~IsDigit(sku[j - 1]))
    IN  IF n < 3 \/ sku[n] \notin {"X", "x"} THEN <<>>
        ELSE IF k <= n - 1 /\ k >= 2 /\ sku[k - 1] = "-"
             THEN <<DecVal(SubSeq(sku, k, n - 1))>>
        ELSE <<>>

\* lines 196-200: the multiplier of the SKU string, else the set count
ByMultiplier(sets_int, multiplier) ==
    IF multiplier # <<>> /\ multiplier[1] # 0 THEN Ok(sets_int * multiplier[1])
    ELSE Ok(sets_int)

BySkuString(sets_int, sku_str) ==
    ByMultiplier(sets_int, IF sku_str # <<>> THEN get_multiplier_from_sku(sku_str) ELSE <<>>)

\* lines 192-195: row is the reference record looked up for an order without SKU
BySubstitutedSku(df, sets_int, sku_str, row) ==
    IF row.exc # "" THEN Raised(row.exc)
    ELSE BySkuString(sets_int, IF row.val # <<>> THEN safe_str(df[row.val[1]].code) ELSE sku_str)

BySku(idx, cols, df, sets_int, sku_str, product_id) ==
    BySubstitutedSku(df, sets_int, sku_str,
        IF sku_str = <<>> /\ safe_str(product_id) # <<>> /\ "sku_code" \in cols
        THEN get_row_by_product_id(idx, product_id) ELSE NoRow)

\* lines 188-190: unit_qty is the unit quantity of the record found (0 without one)
ByUnitQuantity(idx, cols, df, sets_int, sku, product_id, unit_qty) ==
    IF unit_qty.exc # "" THEN unit_qty
    ELSE IF unit_qty.val > 0 THEN Ok(sets_int * unit_qty.val)
    ELSE BySku(idx, cols, df, sets_int, safe_str(sku), product_id)

\* lines 185-187: row is the reference record of the unit-quantity path
ByUnitRow(idx, cols, df, sets_int, sku, product_id, row) ==
    IF row.exc # "" THEN Raised(row.exc)
    ELSE ByUnitQuantity(idx, cols, df, sets_int, sku, product_id,
             IF row.val # <<>> THEN safe_int(df[row.val[1]].unit) ELSE Ok(0))

BySets(idx, cols, df, sku, sets_int, product_id) ==
    IF sets_int.exc # "" THEN sets_int
    ELSE IF sets_int.val <= 0 THEN Ok(0)
    ELSE ByUnitRow(idx, cols, df, sets_int.val, sku, product_id,
             IF safe_str(product_id) # <<>> /\ "unit_qty" \in cols
             THEN get_row_by_product_id(idx, product_id) ELSE NoRow)

\* calculate_total_quantity with the SKU suffix consulted before the table
calculate_total_quantity_sku_first(idx, cols, df, sku, sets, product_id) ==
    LET s == safe_int(sets)
        m == get_multiplier_from_sku(safe_str(sku))
    IN  IF s.exc = "" /\ s.val > 0 /\ m # <<>> /\ m[1] # 0 THEN Ok(s.val * m[1])
        ELSE BySets(idx, cols, df, sku, s, product_id)

\* calculate_total_quantity
calculate_total_quantity(idx, cols, df, sku, sets, product_id) ==
    BySets(idx, cols, df, sku, safe_int(sets), product_id)

----------------------------------------------------------------------------
(* Identity resolver and asset locator.  A character outside ASCII is      *)
(* written by its code point ("U+5382" is the character 0x5382).           *)

\* the characters of the range U+4E00..U+9FFF that occur in the model
CJK == { "U+4E00", "U+4E8C", "U+4E09", "U+56DB", "U+4E94", "U+516D", "U+4E03", "U+516B",
         "U+4E5D", "U+5341", "U+7B2C", "U+5355", "U+65E0", "U+6761", "U+7801", "U+5176",
         "U+4ED6", "U+4F9B", "U+5E94", "U+5546", "U+5382", "U+5F02", "U+5E38", "U+8BA2" }

\* "其他供应商"
OtherSupplier == <<"U+5176", "U+4ED6", "U+4F9B", "U+5E94", "U+5546">>

\* line 154: re.search(r'[一-鿿]', cell_str), or "供应商" / "厂" in cell_str
IsSupplierHeader(cell_str) ==
    \/ \E i \in 1..Len(cell_str) : cell_str[i] \in CJK
    \/ Contains(cell_str, <<"U+4F9B", "U+5E94", "U+5546">>)
    \/ Contains(cell_str, <<"U+5382">>)

\* d[key] = val for a dict that keeps insertion order
PutEntry(entries, key, val, pos) ==
    IF pos = 0 THEN Append(entries, [key |-> key, val |-> val])
    ELSE [entries EXCEPT ![pos].val = val]

\* lines 152-157 for one cell: st is [current_supplier, cache]
SupplierCell(st, cell_str) ==
    IF IsSupplierHeader(cell_str) THEN [st EXCEPT !.current_supplier = cell_str]
    ELSE [st EXCEPT !.cache = PutEntry(st.cache, cell_str,
                                       [supplier |-> st.current_supplier, found |-> TRUE],
                                       KeyPos(st.cache, cell_str))]

RECURSIVE SupplierCells(_, _, _)
SupplierCells(cells, j, st) ==
    IF j > Len(cells) THEN st
    ELSE IF cells[j] = Missing THEN SupplierCells(cells, j + 1, st)
    ELSE SupplierCells(cells, j + 1, SupplierCell(st, Strip(cells[j])))

RECURSIVE SupplierRows(_, _, _)
SupplierRows(df, i, st) ==
    IF i > Len(df) THEN st
    ELSE SupplierRows(df, i + 1, SupplierCells(df[i], 1, st))

\* _build_supplier_cache
build_supplier_cache(df) ==
    SupplierRows(df, 1, [current_supplier |-> OtherSupplier, cache |-> <<>>]).cache

\* the first entry whose key and text contain one another, 0 when there is none
FuzzyPos(entries, text) ==
    IF \E i \in 1..Len(entries) : Contains(entries[i].key, text) \/ Contains(text, entries[i].key)
    THEN CHOOSE i \in 1..Len(entries) :
             /\ Contains(entries[i].key, text) \/ Contains(text, entries[i].key)
             /\ \A j \in 1..(i - 1) :
                    ~(Contains(entries[j].key, text) \/ Contains(text, entries[j].key))
    ELSE 0

EntryOr(entries, pos, default) == IF pos = 0 THEN default ELSE entries[pos].val

\* get_supplier_group without the exact lookup of lines 219-220
get_supplier_group_scan_only(cache, sku_prefix) ==
    IF sku_prefix = <<>> THEN [supplier |-> OtherSupplier, found |-> FALSE]
    ELSE EntryOr(cache, FuzzyPos(cache, sku_prefix), [supplier |-> OtherSupplier, found |-> FALSE])

\* get_supplier_group
get_supplier_group(cache, sku_prefix) ==
    IF sku_prefix = <<>> THEN [supplier |-> OtherSupplier, found |-> FALSE]
    ELSE IF KeyPos(cache, sku_prefix) # 0 THEN cache[KeyPos(cache, sku_prefix)].val
    ELSE EntryOr(cache, FuzzyPos(cache, sku_prefix), [supplier |-> OtherSupplier, found |-> FALSE])

UpperCase == <<"A", "B", "C", "D", "E", "F", "G", "H", "I", "J", "K", "L", "M",
               "N", "O", "P", "Q", "R", "S", "T", "U", "V", "W", "X", "Y", "Z">>

LowerCase == <<"a", "b", "c", "d", "e", "f", "g", "h", "i", "j", "k", "l", "m",
               "n", "o", "p", "q", "r", "s", "t", "u", "v", "w", "x", "y", "z">>

LowerChar(c) ==
    IF \E i \in 1..Len(UpperCase) : UpperCase[i] = c
    THEN LowerCase[CHOOSE i \in 1..Len(UpperCase) : UpperCase[i] = c]
    ELSE c

\* str.lower()
Lower(s) == [i \in 1..Len(s) |-> LowerChar(s[i])]

\* position of the last c in s, 0 when there is none
LastPos(s, c) ==
    IF \E i \in 1..Len(s) : s[i] = c
    THEN CHOOSE i \in 1..Len(s) : s[i] = c /\ \A j \in (i + 1)..Len(s) : s[j] # c
    ELSE 0

\* os.path.splitext(filename)[0]: the extension starts at the last dot, unless
\* only dots come before it
SplitExtAt(filename, p) ==
    IF p > 1 /\ \E j \in 1..(p - 1) : filename[j] # "." THEN SubSeq(filename, 1, p - 1)
    ELSE filename

SplitExtRoot(filename) == SplitExtAt(filename, LastPos(filename, "."))

RECURSIVE ImageEntries(_, _, _)
ImageEntries(files, i, entries) ==
    IF i > Len(files) THEN entries
    ELSE ImageEntries(files, i + 1,
             PutEntry(entries, Lower(SplitExtRoot(files[i].key)), files[i].val,
                      KeyPos(entries, Lower(SplitExtRoot(files[i].key)))))

\* _build_image_cache
build_image_cache(files) == ImageEntries(files, 1, <<>>)

FindImageLower(cache, sku_lower) ==
    IF KeyPos(cache, sku_lower) # 0 THEN cache[KeyPos(cache, sku_lower)].val
    ELSE EntryOr(cache, FuzzyPos(cache, sku_lower), NoneVal)

\* find_image_data
find_image_data(cache, sku_prefix) ==
    IF sku_prefix = <<>> THEN NoneVal ELSE FindImageLower(cache, Lower(sku_prefix))

\* the first row of the name table whose first cell contains the prefix
NameRowPos(df, sku_prefix) ==
    IF \E i \in 1..Len(df) : df[i][1] # Missing /\ Contains(df[i][1], sku_prefix)
    THEN CHOOSE i \in 1..Len(df) :
             /\ df[i][1] # Missing /\ Contains(df[i][1], sku_prefix)
             /\ \A j \in 1..(i - 1) : ~(df[j][1] # Missing /\ Contains(df[j][1], sku_prefix))
    ELSE 0

NameAt(df, pos, sku_prefix) ==
    IF pos = 0 THEN sku_prefix
    ELSE IF safe_str(df[pos][2]) = <<>> THEN sku_prefix
    ELSE safe_str(df[pos][2])

\* get_product_name
get_product_name(df, sku_prefix) ==
    IF sku_prefix = <<>> THEN <<>> ELSE NameAt(df, NameRowPos(df, sku_prefix), sku_prefix)

DetailOfRow(df, row) ==
    IF row.exc # "" THEN [exc |-> row.exc, val |-> <<>>]
    ELSE IF row.val = <<>> THEN [exc |-> "", val |-> <<>>]
    ELSE [exc |-> "", val |-> safe_str(df[row.val[1]].detail)]

\* get_product_details
get_product_details(idx, cols, df, product_id) ==
    IF "detail" \notin cols THEN [exc |-> "", val |-> <<>>]
    ELSE DetailOfRow(df, get_row_by_product_id(idx, product_id))

\* the first barcode file whose name contains the id, 0 when there is none
BarcodePos(files, product_id_str) ==
    IF \E i \in 1..Len(files) : Contains(files[i].key, product_id_str)
    THEN CHOOSE i \in 1..Len(files) :
             /\ Contains(files[i].key, product_id_str)
             /\ \A j \in 1..(i - 1) : ~Contains(files[j].key, product_id_str)
    ELSE 0

NoBarcode == [data |-> NoneVal, filename |-> NoneVal]

BarcodeAt(files, pos) ==
    IF pos = 0 THEN NoBarcode ELSE [data |-> files[pos].val, filename |-> files[pos].key]

\* find_barcode_data
find_barcode_data(files, product_id) ==
    IF safe_str(product_id) = <<>> THEN NoBarcode
    ELSE BarcodeAt(files, BarcodePos(files, safe_str(product_id)))

----------------------------------------------------------------------------
(* Merger: merge_orders and group_by_warehouse.  An order line is the dict *)
(* process_order_data builds; a dict that keeps insertion order is a       *)
(* sequence of entries.                                                    *)

\* f"{value}" of a cell
FStr(cell) == IF cell = Missing THEN <<"n", "a", "n">> ELSE cell

\* sorted(): pairs <<key, item>> in increasing key, equal keys in their order
\* (Python's sort is stable)
RECURSIVE InsertPair(_, _)
InsertPair(done, pair) ==
    IF done = <<>> THEN <<pair>>
    ELSE IF done[Len(done)][1] <= pair[1] THEN Append(done, pair)
    ELSE Append(InsertPair(SubSeq(done, 1, Len(done) - 1), pair), done[Len(done)])

RECURSIVE SortPairs(_, _, _)
SortPairs(pairs, i, done) ==
    IF i > Len(pairs) THEN done
    ELSE SortPairs(pairs, i + 1, InsertPair(done, pairs[i]))

Items(pairs) == [i \in 1..Len(pairs) |-> pairs[i][2]]

\* sorted(lines, key=lambda x: x['原始顺序'])
SortedBySeq(lines) ==
    Items(SortPairs([i \in 1..Len(lines) |-> <<lines[i].seq, lines[i]>>], 1, <<>>))

\* line 339: the key merge_orders groups by
MergeKey(order) == FStr(order.warehouse) \o <<"_">> \o FStr(order.id)

\* The dict objects merge_orders works on: heap[r] is the object behind the
\* reference r.  The lines passed in are the objects 1..Len(lines); merged maps
\* a key to a reference.

\* sorted(orders, key=lambda x: x['原始顺序']) as references to the lines
SortedRefs(lines) ==
    Items(SortPairs([i \in 1..Len(lines) |-> <<lines[i].seq, i>>], 1, <<>>))

\* lines 340-344 with the later line's fields kept
MergeOneLast(st, ref, pos) ==
    IF pos = 0
    THEN [heap    |-> Append(st.heap, st.heap[ref]),
          entries |-> Append(st.entries, [key |-> MergeKey(st.heap[ref]),
                                          val |-> Len(st.heap) + 1])]
    ELSE [st EXCEPT !.heap[st.entries[pos].val] =
              [st.heap[ref] EXCEPT !.sets  = st.heap[st.entries[pos].val].sets + @,
                                   !.total = st.heap[st.entries[pos].val].total + @,
                                   !.seq   = st.heap[st.entries[pos].val].seq]]

\* lines 340-344 with merged[key] = order, the line itself and not a copy of it
MergeOneShared(st, ref, pos) ==
    IF pos = 0
    THEN [st EXCEPT !.entries = Append(@, [key |-> MergeKey(st.heap[ref]), val |-> ref])]
    ELSE [st EXCEPT !.heap[st.entries[pos].val].sets  = @ + st.heap[ref].sets,
                    !.heap[st.entries[pos].val].total = @ + st.heap[ref].total]

\* lines 340-344: pos is where the line's key is in merged; order.copy() is a
\* new object, and += writes to the object merged[key] refers to
MergeOne(st, ref, pos) ==
    IF pos = 0
    THEN [heap    |-> Append(st.heap, st.heap[ref]),
          entries |-> Append(st.entries, [key |-> MergeKey(st.heap[ref]),
                                          val |-> Len(st.heap) + 1])]
    ELSE [st EXCEPT !.heap[st.entries[pos].val].sets  = @ + st.heap[ref].sets,
                    !.heap[st.entries[pos].val].total = @ + st.heap[ref].total]

RECURSIVE MergeLoop(_, _, _)
MergeLoop(refs, i, st) ==
    IF i > Len(refs) THEN st
    ELSE MergeLoop(refs, i + 1,
                   MergeOne(st, refs[i], KeyPos(st.entries, MergeKey(st.heap[refs[i]]))))

\* lines 337-344: the objects when the loop is over
MergeRun(lines) == MergeLoop(SortedRefs(lines), 1, [heap |-> lines, entries |-> <<>>])

Values(entries) == [i \in 1..Len(entries) |-> entries[i].val]

\* merged.values()
MergedValues(st) == [i \in 1..Len(st.entries) |-> st.heap[st.entries[i].val]]

\* merge_orders
merge_orders(lines) == SortedBySeq(MergedValues(MergeRun(lines)))

\* the list merge_orders was given, as it is when the call has returned
orders_after_merge(lines) == SubSeq(MergeRun(lines).heap, 1, Len(lines))

Min2(a, b) == IF a <= b THEN a ELSE b

\* lines 350-359: pos is where the line's warehouse is in groups
GroupOne(entries, order, pos) ==
    IF pos = 0
    THEN Append(entries, [key |-> order.warehouse,
                          val |-> [warehouse_name    |-> order.warehouse,
                                   warehouse_address |-> order.address,
                                   orders            |-> <<order>>,
                                   min_order         |-> order.seq]])
    ELSE [entries EXCEPT ![pos].val.orders    = Append(@, order),
                         ![pos].val.min_order = Min2(@, order.seq)]

RECURSIVE GroupLoop(_, _, _)
GroupLoop(lines, i, entries) ==
    IF i > Len(lines) THEN entries
    ELSE GroupLoop(lines, i + 1, GroupOne(entries, lines[i], KeyPos(entries, lines[i].warehouse)))

\* sorted(groups.values(), key=lambda x: x['min_order'])
SortedByMinOrder(gs) ==
    Items(SortPairs([i \in 1..Len(gs) |-> <<gs[i].min_order, gs[i]>>], 1, <<>>))

\* group_by_warehouse without the final sort: groups in first-seen order
group_by_warehouse_first_seen(lines) == Values(GroupLoop(lines, 1, <<>>))

\* group_by_warehouse
group_by_warehouse(lines) == SortedByMinOrder(Values(GroupLoop(lines, 1, <<>>)))

----------------------------------------------------------------------------
(* Classifier: process_order_data.  ctx holds what the generator reads:    *)
(* idx, cols, df (the product-id table and its index), suppliers, names,   *)
(* images, barcodes and main_cols (the recognised order-table columns).    *)

\* row.get(col_names[c], default) if col_names[c] else default
CellOf(ctx, data_row, c, default) == IF c \in ctx.main_cols THEN data_row[c] ELSE default

Truthy(payload) == payload # NoneVal /\ payload # <<>>

\* lines 310-329: the dict of one row; detail, sets_int and total are results
\* that may be exceptions
OrderData(ctx, data_row, product_id, sku, sku_prefix, detail, sets_int, total, barcode) ==
    IF detail.exc # "" THEN [exc |-> detail.exc, val |-> <<>>]
    ELSE IF sets_int.exc # "" THEN [exc |-> sets_int.exc, val |-> <<>>]
    ELSE IF total.exc # "" THEN [exc |-> total.exc, val |-> <<>>]
    ELSE [exc |-> "",
          val |-> [sku       |-> sku,
                   name      |-> get_product_name(ctx.names, sku_prefix),
                   image     |-> find_image_data(ctx.images, sku_prefix),
                   prefix    |-> sku_prefix,
                   detail    |-> detail.val,
                   sets      |-> sets_int.val,
                   total     |-> total.val,
                   id        |-> product_id,
                   address   |-> CellOf(ctx, data_row, "address", <<>>),
                   warehouse |-> CellOf(ctx, data_row, "warehouse", <<>>),
                   seq       |-> data_row.seq,
                   barcode_data     |-> IF Truthy(barcode.data) THEN barcode.data ELSE NoneVal,
                   barcode_filename |-> IF Truthy(barcode.data) THEN barcode.filename ELSE NoneVal]]

\* lines 305-329
OrderOfCells(ctx, data_row, product_id, sku, sets) ==
    OrderData(ctx, data_row, product_id, sku, extract_sku_prefix(sku),
              get_product_details(ctx.idx, ctx.cols, ctx.df, product_id),
              safe_int(sets),
              calculate_total_quantity(ctx.idx, ctx.cols, ctx.df, sku, sets, product_id),
              find_barcode_data(ctx.barcodes, product_id))

OrderOfRow(ctx, data_row) ==
    OrderOfCells(ctx, data_row, CellOf(ctx, data_row, "id", <<>>),
                 CellOf(ctx, data_row, "sku", <<>>), CellOf(ctx, data_row, "sets", <<"0">>))

\* supplier_orders.setdefault(supplier, []).append(order_data)
AppendTo(entries, key, order, pos) ==
    IF pos = 0 THEN Append(entries, [key |-> key, val |-> <<order>>])
    ELSE [entries EXCEPT ![pos].val = Append(@, order)]

\* lines 330-333: sg is what get_supplier_group returned for the line's prefix
Route(acc, order, sg) ==
    IF sg.found
    THEN [acc EXCEPT !.supplier_orders =
                         AppendTo(@, sg.supplier, order, KeyPos(acc.supplier_orders, sg.supplier))]
    ELSE [acc EXCEPT !.abnormal_orders = Append(@, order)]

RECURSIVE ProcessLoop(_, _, _, _)

ProcessStep(ctx, rows, i, acc, order) ==
    IF order.exc # "" THEN [acc EXCEPT !.exc = order.exc]
    ELSE ProcessLoop(ctx, rows, i + 1,
             Route(acc, order.val, get_supplier_group(ctx.suppliers, order.val.prefix)))

ProcessLoop(ctx, rows, i, acc) ==
    IF i > Len(rows) THEN acc
    ELSE ProcessStep(ctx, rows, i, acc, OrderOfRow(ctx, rows[i]))

\* process_order_data: [exc, supplier_orders, abnormal_orders]
process_order_data(ctx, store_data) ==
    ProcessLoop(ctx, SortedBySeq(store_data), 1,
                [exc |-> "", supplier_orders |-> <<>>, abnormal_orders |-> <<>>])

----------------------------------------------------------------------------
(* Document assembler: create_excel.  The worksheet is [title, cells,      *)
(* merges, image_rows]: cells maps a row number to the values written in   *)
(* its columns (NoneVal for a cell that is not written), merges is the set *)
(* of merged ranges.                                                       *)

\* "一" .. "二十"
CHINESE_NUMBERS ==
    << <<"U+4E00">>, <<"U+4E8C">>, <<"U+4E09">>, <<"U+56DB">>, <<"U+4E94">>, <<"U+516D">>, <<"U+4E03">>, <<"U+516B">>, <<"U+4E5D">>, <<"U+5341">>,
    <<"U+5341", "U+4E00">>, <<"U+5341", "U+4E8C">>, <<"U+5341", "U+4E09">>, <<"U+5341", "U+56DB">>, <<"U+5341", "U+4E94">>, <<"U+5341", "U+516D">>,
    <<"U+5341", "U+4E03">>, <<"U+5341", "U+516B">>, <<"U+5341", "U+4E5D">>, <<"U+4E8C", "U+5341">> >>

\* "异常订单"
AbnormalLabel == <<"U+5F02", "U+5E38", "U+8BA2", "U+5355">>

\* "无条码"
NoBarcodeMark == <<"U+65E0", "U+6761", "U+7801">>

\* line 384: current_row = 4
FirstDataRow == 4

\* ws.title = (...)[:31]
SheetTitleMax == 31

\* lines 410-411: wh_idx counts from 0
OrderNum(wh_idx) ==
    IF wh_idx < Len(CHINESE_NUMBERS)
    THEN <<"U+7B2C">> \o CHINESE_NUMBERS[wh_idx + 1] \o <<"U+5355">>
    ELSE <<"U+7B2C">> \o PyStr(wh_idx + 1) \o <<"U+5355">>

\* lines 399-404 with the file kept under its own name
BarcodeCellPlain(order) ==
    IF Truthy(order.barcode_data) /\ Truthy(order.barcode_filename)
    THEN <<order.barcode_filename>>
    ELSE <<>>

\* lines 399-404: <<new_name>> when the line has a barcode, <<>> otherwise
BarcodeCell(order) ==
    IF Truthy(order.barcode_data) /\ Truthy(order.barcode_filename)
    THEN <<PyStr(order.sets) \o <<"-", "-">> \o order.barcode_filename>>
    ELSE <<>>

\* lines 390-408: one data row; i counts the group's lines from 0
WriteOrder(st, wh_info, i, order, new_name) ==
    [st EXCEPT
        !.cells = Put(st.cells, st.current_row,
                      [ordinal   |-> NoneVal,
                       sku       |-> order.sku,
                       name      |-> order.name,
                       detail    |-> order.detail,
                       sets      |-> order.sets,
                       total     |-> order.total,
                       id        |-> order.id,
                       barcode   |-> IF new_name # <<>> THEN new_name[1] ELSE NoBarcodeMark,
                       address   |-> IF i = 0 THEN wh_info.warehouse_address ELSE NoneVal,
                       warehouse |-> IF i = 0 THEN wh_info.warehouse_name ELSE NoneVal]),
        !.barcode_files = IF new_name # <<>>
                          THEN Append(@, [name |-> new_name[1], data |-> order.barcode_data])
                          ELSE @,
        !.image_rows = IF Truthy(order.image) THEN Append(@, st.current_row) ELSE @,
        !.current_row = @ + 1]

RECURSIVE WriteOrders(_, _, _)
WriteOrders(st, wh_info, i) ==
    IF i >= Len(wh_info.orders) THEN st
    ELSE WriteOrders(WriteOrder(st, wh_info, i, wh_info.orders[i + 1],
                                BarcodeCell(wh_info.orders[i + 1])),
                     wh_info, i + 1)

ColumnMerges(start_row, end_row) ==
    { [start_row |-> start_row, start_column |-> c, end_row |-> end_row, end_column |-> c] :
          c \in {1, 10, 11} }

\* lines 409-416 with the merges ending one row late
CloseGroupOneMore(st, wh_idx, start_row, end_row) ==
    [st EXCEPT !.cells[start_row].ordinal = OrderNum(wh_idx),
               !.merges = IF end_row > start_row
                          THEN @ \cup ColumnMerges(start_row, end_row + 1) ELSE @]

\* lines 409-416: the ordinal label and the merges of a group
CloseGroup(st, wh_idx, start_row, end_row) ==
    [st EXCEPT !.cells[start_row].ordinal = OrderNum(wh_idx),
               !.merges = IF end_row > start_row
                          THEN @ \cup ColumnMerges(start_row, end_row) ELSE @]

WriteGroup(wh_idx, start_row, written) ==
    CloseGroup(written, wh_idx, start_row, written.current_row - 1)

RECURSIVE WriteGroups(_, _, _)
WriteGroups(st, warehouse_groups, wh_idx) ==
    IF wh_idx >= Len(warehouse_groups) THEN st
    ELSE WriteGroups(WriteGroup(wh_idx, st.current_row,
                                WriteOrders(st, warehouse_groups[wh_idx + 1], 0)),
                     warehouse_groups, wh_idx + 1)

Prefix(text, n) == SubSeq(text, 1, IF Len(text) < n THEN Len(text) ELSE n)

\* create_excel: [sheet, barcode_files]
create_excel(supplier, lines, is_abnormal) ==
    WriteGroups([current_row   |-> FirstDataRow,
                 title         |-> Prefix(IF is_abnormal THEN AbnormalLabel ELSE supplier,
                                          SheetTitleMax),
                 cells         |-> EmptyMap,
                 merges        |-> { [start_row |-> 1, start_column |-> 1,
                                      end_row |-> 1, end_column |-> 11] },
                 barcode_files |-> <<>>,
                 image_rows    |-> <<>>],
                group_by_warehouse(lines), 0)

----------------------------------------------------------------------------
(* Inputs of the reference-table scenarios *)

RefRowPool ==
    { [id |-> <<"7", ".", "0">>, code |-> <<"A", "B", "-", "2", "X">>, unit |-> <<"5">>],
      [id |-> <<"7">>,           code |-> <<"C", "D">>,                unit |-> <<"0">>],
      [id |-> <<"8">>,           code |-> <<"E", "-", "0", "3", "x">>, unit |-> Missing],
      [id |-> <<"a", "b">>,      code |-> <<>>,                        unit |-> <<"2", ".", "9">>],
      [id |-> Missing,           code |-> <<"G">>,                     unit |-> <<"4">>],
      [id |-> <<"i", "n", "f">>, code |-> <<"H">>,                     unit |-> <<"1">>] }

RefTables == UNION { [1..n -> RefRowPool] : n \in 0..MaxRefRows }

\* the keys _identify_columns may or may not find besides the id column
ColumnKeys == {"unit_qty", "sku_code"}

IdPool ==
    { <<"7">>, <<"7", ".", "0">>, <<"0", "7">>, <<" ", "7">>, <<"8", ".", "6">>,
      <<"9">>, <<"a", "b">>, <<"i", "n", "f">>, Missing }

SkuPool ==
    { <<"A", "B", "-", "6", "X">>, <<"A", "-", "0", "6", "x">>, <<"A", "-", "0", "X">>,
      <<"A", "B">>, <<"A", "6", "X">>, Missing }

SetsPool ==
    { <<"3">>, <<"2", ".", "7">>, <<"0">>, <<"-", "2">>, <<"-", "0", ".", "5">>,
      <<"a", "b">>, <<"n", "a", "n">>, <<"i", "n", "f">>, <<"-", "i", "n", "f">>, Missing }

----------------------------------------------------------------------------
(* The reference-table scenario: construct, then one call of a lookup (the  *)
(* lookups change no state, so one call per behaviour shows them all)      *)

NoCall == [op |-> "none", sku |-> <<>>, sets |-> <<>>, id |-> <<>>]

\* get_supplier_group has not been called
NoGroup == [supplier |-> <<>>, found |-> FALSE]

\* merge_orders and group_by_warehouse have not been called
NoLines ==
    /\ orders = <<>>
    /\ merged = <<>>
    /\ lines_in = <<>>
    /\ groups = <<>>

\* a generator without order table, supplier table, name table and files
NoTables ==
    /\ main_df = <<>>
    /\ main_cols = {}
    /\ supplier_sku_df = <<>>
    /\ sku_name_df = <<>>
    /\ barcode_files_dict = <<>>
    /\ image_files_dict = <<>>
    /\ supplier_sku_cache = <<>>
    /\ image_cache = <<>>

\* generate_all_orders has not been called
IdleRun ==
    /\ stores = <<>>
    /\ store_idx = 0
    /\ supplier_orders = <<>>
    /\ abnormal_orders = <<>>
    /\ bucket_idx = 0
    /\ documents = <<>>
    /\ progress = <<>>
    /\ outcome = ""
    /\ error = <<>>

InitCalc ==
    /\ pc = "new"
    /\ sku_id_df \in RefTables
    /\ col_mapping \in SUBSET ColumnKeys
    /\ product_id_index = EmptyMap
    /\ call = NoCall
    /\ found_row = NoRow
    /\ result = Ok(0)
    /\ supplier_group = NoGroup
    /\ NoLines
    /\ NoTables
    /\ IdleRun

\* __init__: the column seq is put in the order table and the index and the
\* caches are built, or the constructor raises while it builds the index
Construct ==
    /\ pc = "new"
    /\ main_df' = [i \in 1..Len(main_df) |-> [main_df[i] EXCEPT !.seq = i - 1]]
    /\ main_cols' = main_cols \cup {"seq"}
    /\ LET b == build_product_id_index(sku_id_df, 1, EmptyMap)
       IN  /\ pc' = IF b.exc = "" THEN "ready" ELSE "failed"
           /\ product_id_index' = b.val
           /\ result' = [exc |-> b.exc, val |-> 0]
           /\ supplier_sku_cache' = IF b.exc = "" THEN build_supplier_cache(supplier_sku_df)
                                    ELSE <<>>
           /\ image_cache' = IF b.exc = "" THEN build_image_cache(image_files_dict) ELSE <<>>
    /\ call' = [NoCall EXCEPT !.op = "init"]
    /\ UNCHANGED <<sku_id_df, col_mapping, found_row, supplier_group, mergeVars, tableVars,
                   runVars>>

GetRowByProductId ==
    /\ pc = "ready"
    /\ \E id \in IdPool :
        /\ call' = [NoCall EXCEPT !.op = "get_row", !.id = id]
        /\ found_row' = get_row_by_product_id(product_id_index, id)
    /\ pc' = "returned"
    /\ UNCHANGED <<sku_id_df, col_mapping, product_id_index, result, supplier_group, mergeVars,
                   tableVars, cacheVars, runVars>>

CalculateTotalQuantity ==
    /\ pc = "ready"
    /\ \E sku \in SkuPool, sets \in SetsPool, id \in IdPool :
        /\ call' = [op |-> "calc", sku |-> sku, sets |-> sets, id |-> id]
        /\ result' = calculate_total_quantity(product_id_index, col_mapping, sku_id_df,
                                              sku, sets, id)
    /\ pc' = "returned"
    /\ UNCHANGED <<sku_id_df, col_mapping, product_id_index, found_row, supplier_group, mergeVars,
                   tableVars, cacheVars, runVars>>

NextCalc == Construct \/ GetRowByProductId \/ CalculateTotalQuantity

SpecCalc == InitCalc /\ [][NextCalc]_vars

----------------------------------------------------------------------------
(* Claims about the reference index and the quantity calculator *)

IsNumber(cell) == cell # Missing /\ IntOfFloat(cell).exc = ""

\* C1: for every id that parses as a number, looking up id and looking up
\* str(int(float(id))) give the same reference record (or both none), also when
\* several rows carry numerically equal ids.
C1_SameRecord ==
    (call.op = "get_row" /\ IsNumber(call.id))
        => found_row = get_row_by_product_id(product_id_index, PyStr(IntOfFloat(call.id).val))

\* what the unit-quantity path reads for the last calculate_total_quantity call
CallSets == safe_int(call.sets)
CallRow  == get_row_by_product_id(product_id_index, call.id)
CallUnit == IF CallRow.val # <<>> THEN safe_int(sku_id_df[CallRow.val[1]].unit) ELSE Ok(0)

UnitPathApplies ==
    /\ "unit_qty" \in col_mapping
    /\ CallRow.exc = "" /\ CallRow.val # <<>>
    /\ CallUnit.exc = "" /\ CallUnit.val > 0

\* C2: when sets parses to s > 0, the unit-quantity column is recognised and the
\* product id resolves to a record with unit quantity u > 0, the result is s * u
\* whatever the sku, also one that ends in a -<digits>X multiplier.
C2_UnitQuantityFirst ==
    (call.op = "calc" /\ CallSets.exc = "" /\ CallSets.val > 0 /\ UnitPathApplies)
        => result = Ok(CallSets.val * CallUnit.val)

C2_Witness ==
    /\ call.op = "calc" /\ CallSets.exc = "" /\ CallSets.val > 0 /\ UnitPathApplies
    /\ call.sku # Missing
    /\ get_multiplier_from_sku(safe_str(call.sku)) \notin {<<>>, <<0>>, <<CallUnit.val>>}
    /\ result = Ok(CallSets.val * CallUnit.val)

\* the unit-quantity path was passed without a result: no column, a blank id, no
\* record, or a record whose unit quantity is not positive
UnitPathPassed ==
    \/ "unit_qty" \notin col_mapping
    \/ safe_str(call.id) = <<>>
    \/ CallRow.exc = "" /\ CallRow.val = <<>>
    \/ CallRow.exc = "" /\ CallRow.val # <<>> /\ CallUnit.exc = "" /\ CallUnit.val <= 0

\* the SKU string the multiplier is read from: the SKU of the order, or the SKU
\* code of the reference record when the order has none
CallSkuString ==
    IF safe_str(call.sku) = <<>> /\ safe_str(call.id) # <<>> /\ "sku_code" \in col_mapping
       /\ CallRow.exc = "" /\ CallRow.val # <<>>
    THEN safe_str(sku_id_df[CallRow.val[1]].code)
    ELSE safe_str(call.sku)

\* C3: when sets parses to s > 0, the unit-quantity path does not apply and the
\* (possibly substituted) SKU ends with -<digits>X or -<digits>x, the result is
\* s * m, m the value of the digit group, for every digit group (0 included).
C3_SuffixMultiplier ==
    (/\ call.op = "calc" /\ CallSets.exc = "" /\ CallSets.val > 0
     /\ UnitPathPassed
     /\ (safe_str(call.sku) = <<>> /\ safe_str(call.id) # <<>> /\ "sku_code" \in col_mapping
            => CallRow.exc = "")
     /\ get_multiplier_from_sku(CallSkuString) # <<>>)
        => result = Ok(CallSets.val * get_multiplier_from_sku(CallSkuString)[1])

\* a sets value that is missing, not a number, zero or negative
SetsNotPositive(sets) ==
    \/ sets = Missing
    \/ PyFloat(sets).kind \in {"error", "nan"}
    \/ PyFloat(sets).num <= 0

\* C4: calculate_total_quantity returns 0 whenever the sets value is missing,
\* unparseable, zero or negative, whatever the sku and the product id.
C4_ZeroWithoutSets ==
    (call.op = "calc" /\ SetsNotPositive(call.sets)) => result = Ok(0)

\* C14: no value of the set-count, unit-quantity and product-id cells (missing,
\* text, finite numbers, "inf", "nan") is fatal: _build_product_id_index in the
\* constructor, _get_row_by_product_id and calculate_total_quantity (and
\* _safe_int in it) complete without raising.
C14_NeverFatal ==
    /\ pc # "failed"
    /\ found_row.exc = ""
    /\ result.exc = ""

----------------------------------------------------------------------------
(* The merger scenario: a list of order lines in any order is merged and   *)
(* grouped                                                                 *)

Line(sku, sets, total, id, address, warehouse, barcode_filename) ==
    [sku |-> sku, name |-> sku, image |-> NoneVal, prefix |-> sku, detail |-> <<>>,
     sets |-> sets, total |-> total, id |-> id, address |-> address,
     warehouse |-> warehouse, seq |-> 0,
     barcode_data |-> IF barcode_filename = NoneVal THEN NoneVal ELSE <<"%">>,
     barcode_filename |-> barcode_filename]

LinePool ==
    { Line(<<"S", "1">>, 2, 4, <<"7">>, <<"x">>, <<"A">>, <<"7", ".", "p">>),
      Line(<<"S", "2">>, 3, 3, <<"7">>, <<"y">>, <<"A">>, NoneVal),
      Line(<<"S", "3">>, 1, 5, <<"7">>, <<"z">>, <<"B">>, <<"7", ".", "p">>),
      Line(<<"S", "4">>, 1, 1, <<"8">>, <<"v">>, <<"A", "_", "7">>, NoneVal),
      Line(<<"S", "5">>, 4, 8, <<"7", "_", "8">>, <<"x">>, <<"A">>, NoneVal),
      Line(<<"S", "6">>, -2, 0, Missing, <<"z">>, <<"B">>, NoneVal) }

\* the orders of n lines: every line has its own original sequence index
SeqAssignments(n) == { f \in [1..n -> 0..(n - 1)] : \A i, j \in 1..n : i # j => f[i] # f[j] }

\* the lines tpl with the original sequence indices f
OrderList(tpl, f) == [i \in 1..Len(tpl) |-> [tpl[i] EXCEPT !.seq = f[i]]]

InitMerge ==
    /\ pc = "lines"
    /\ \E n \in 1..MaxLines :
           \E tpl \in [1..n -> LinePool], f \in SeqAssignments(n) : orders = OrderList(tpl, f)
    /\ merged = <<>>
    /\ lines_in = <<>>
    /\ groups = <<>>
    /\ sku_id_df = <<>>
    /\ col_mapping = {}
    /\ product_id_index = EmptyMap
    /\ call = NoCall
    /\ found_row = NoRow
    /\ result = Ok(0)
    /\ supplier_group = NoGroup
    /\ NoTables
    /\ IdleRun

MergeOrders ==
    /\ pc = "lines"
    /\ merged' = merge_orders(orders)
    /\ orders' = orders_after_merge(orders)
    /\ pc' = "merged"
    /\ UNCHANGED <<lines_in, groups, calcVars, tableVars, cacheVars, runVars>>

\* group_by_warehouse is given the merged lines (as create_excel does) or the
\* list as it is
GroupByWarehouse ==
    /\ pc \in {"lines", "merged"}
    /\ lines_in' = IF pc = "merged" THEN merged ELSE orders
    /\ groups' = group_by_warehouse(lines_in')
    /\ pc' = "grouped"
    /\ UNCHANGED <<orders, merged, calcVars, tableVars, cacheVars, runVars>>

NextMerge == MergeOrders \/ GroupByWarehouse

SpecMerge == InitMerge /\ [][NextMerge]_vars

----------------------------------------------------------------------------
(* Claims about merge_orders and group_by_warehouse *)

RECURSIVE SumOf(_, _, _)
SumOf(lines, S, field) ==
    IF S = {} THEN 0
    ELSE LET i == CHOOSE x \in S : TRUE
         IN  lines[i][field] + SumOf(lines, S \ {i}, field)

SameKey(lines, o) == { i \in 1..Len(lines) : MergeKey(lines[i]) = MergeKey(o) }

\* the input line with the smallest original sequence index among those of S
FirstOf(lines, S) == lines[CHOOSE i \in S : \A j \in S : lines[i].seq <= lines[j].seq]

OtherFields == {"sku", "name", "image", "prefix", "detail", "id", "address", "warehouse",
                "seq", "barcode_data", "barcode_filename"}

HasMerged == pc = "merged" \/ (pc = "grouped" /\ merged # <<>>)

\* C5: each output line of merge_orders carries the sums of the set counts and of
\* the total quantities of the input lines with its merge key, and every other
\* field of the input line with the smallest original sequence index for that
\* key; there is one output line per key, and the output is in increasing
\* original sequence index, whatever the order of the input.
C5_MergeSumsFirstFields ==
    HasMerged =>
        /\ \A k \in 1..Len(merged) :
            /\ SameKey(orders, merged[k]) # {}
            /\ merged[k].sets = SumOf(orders, SameKey(orders, merged[k]), "sets")
            /\ merged[k].total = SumOf(orders, SameKey(orders, merged[k]), "total")
            /\ \A f \in OtherFields :
                   merged[k][f] = FirstOf(orders, SameKey(orders, merged[k]))[f]
        /\ \A i \in 1..Len(orders) : \E k \in 1..Len(merged) : MergeKey(merged[k]) = MergeKey(orders[i])
        /\ \A k, l \in 1..Len(merged) : k < l => merged[k].seq < merged[l].seq

\* two lines with one key, the later one first in the list, and a third line
C5_Witness ==
    /\ pc = "merged"
    /\ Len(merged) = 2 /\ Len(orders) = 3
    /\ \E i, j \in 1..Len(orders) :
        /\ i < j /\ orders[i].seq > orders[j].seq
        /\ MergeKey(orders[i]) = MergeKey(orders[j])
        /\ orders[i].sku # orders[j].sku
        /\ orders[j].seq > 0

\* C6: two input lines are merged into one output line if and only if they have
\* the same warehouse name and the same product id: there is one output line per
\* (warehouse name, product id) pair of the input.
C6_CompositeKey ==
    HasMerged =>
        Len(merged) = Cardinality({ <<orders[i].warehouse, orders[i].id>> : i \in 1..Len(orders) })

MinSeq(lines) == CHOOSE m \in { lines[i].seq : i \in 1..Len(lines) } :
                     \A i \in 1..Len(lines) : m <= lines[i].seq

LinesOf(lines, S) == { lines[i] : i \in S }

\* C7: group_by_warehouse returns one group per distinct warehouse name, holding
\* exactly the lines with that name, the groups in increasing order of the
\* smallest original sequence index of their members, whatever the order of the
\* lines passed in.
C7_GroupsByMinIndex ==
    pc = "grouped" =>
        /\ \A g, h \in 1..Len(groups) : g # h => groups[g].warehouse_name # groups[h].warehouse_name
        /\ { groups[g].warehouse_name : g \in 1..Len(groups) }
               = { lines_in[i].warehouse : i \in 1..Len(lines_in) }
        /\ \A g \in 1..Len(groups) :
            /\ Len(groups[g].orders) = Cardinality({ i \in 1..Len(lines_in) :
                                           lines_in[i].warehouse = groups[g].warehouse_name })
            /\ LinesOf(groups[g].orders, 1..Len(groups[g].orders))
                   = { lines_in[i] : i \in { j \in 1..Len(lines_in) :
                                           lines_in[j].warehouse = groups[g].warehouse_name } }
        /\ \A g, h \in 1..Len(groups) :
               g < h => MinSeq(groups[g].orders) < MinSeq(groups[h].orders)

\* interleaved warehouses passed in an order that is not the original one: the
\* warehouse seen first in the list is not the one with the smallest index
C7_Witness ==
    /\ pc = "grouped" /\ merged = <<>>
    /\ Len(lines_in) = 3 /\ Len(groups) = 2
    /\ lines_in[1].warehouse # lines_in[2].warehouse
    /\ lines_in[2].warehouse = lines_in[3].warehouse
    /\ lines_in[1].seq = 1 /\ lines_in[2].seq = 2 /\ lines_in[3].seq = 0
    /\ groups[1].warehouse_name = lines_in[2].warehouse

\* C16: merge_orders and group_by_warehouse leave the list they are given as
\* it was: every line of it has the field values it had before the call, set
\* count and total included, so that merging the same list again gives the same
\* result; group_by_warehouse changes neither the list it is given nor the
\* other one.
C16_InputsUnchanged ==
    [][/\ orders' = orders
       /\ (pc = "lines" /\ pc' = "merged") => merge_orders(orders') = merged'
       /\ pc' = "grouped" => (merged' = merged /\ lines_in' \in {merged, orders})]_vars

\* a call of merge_orders has added a later line's counts to those of the first
\* line of its key, and the first line passed in does not have the sums
C16_Witness ==
    /\ pc = "merged"
    /\ \E k \in 1..Len(merged) : \E i \in 1..Len(orders) :
           /\ orders[i].seq = merged[k].seq
           /\ merged[k].sets # orders[i].sets
           /\ merged[k].total # orders[i].total

----------------------------------------------------------------------------
(* generate_all_orders *)

\* the characters of the model's texts in code-point order
Ascii == <<" ", "*", "-", ".", "/">> \o Digits \o <<":", "?">> \o UpperCase \o <<"_">> \o LowerCase

Ord(c) == CHOOSE i \in 1..Len(Ascii) : Ascii[i] = c

\* a < b for two str
RECURSIVE StrLess(_, _, _)
StrLess(a, b, i) ==
    IF i > Len(a) THEN i <= Len(b)
    ELSE IF i > Len(b) THEN FALSE
    ELSE IF a[i] = b[i] THEN StrLess(a, b, i + 1)
    ELSE Ord(a[i]) < Ord(b[i])

MinKey(S) == CHOOSE x \in S : \A y \in S \ {x} : StrLess(x, y, 1)

RECURSIVE SortedKeys(_)

SortedKeysFrom(S, m) == <<m>> \o SortedKeys(S \ {m})

SortedKeys(S) == IF S = {} THEN <<>> ELSE SortedKeysFrom(S, MinKey(S))

RowsOfStore(df, store_name) == SelectSeq(df, LAMBDA r : r.store = store_name)

StoreGroups(df, keys) ==
    [i \in 1..Len(keys) |-> [key |-> keys[i], val |-> RowsOfStore(df, keys[i])]]

\* list(main_df.groupby(store_col)): the stores in sorted order, each with its
\* rows in table order; a row without store is in no group
groupby(df) == StoreGroups(df, SortedKeys({ df[i].store : i \in 1..Len(df) } \ {Missing}))

\* what the methods read of the generator
Self ==
    [idx |-> product_id_index, cols |-> col_mapping, df |-> sku_id_df,
     suppliers |-> supplier_sku_cache, names |-> sku_name_df, images |-> image_cache,
     barcodes |-> barcode_files_dict, main_cols |-> main_cols]

\* the characters of the class [\\/*?:"<>|]
Unsafe == {"\\", "/", "*", "?", ":", "\"", "<", ">", "|"}

\* re.sub(r'[\\/*?:"<>|]', "_", name)
SafeName(name) == [i \in 1..Len(name) |-> IF name[i] \in Unsafe THEN "_" ELSE name[i]]

\* lines 469-494 and 496-509: the workbook of a bucket and its barcode files, with
\* the names of the store folder ("店铺_..."), of the bucket folder ("供应商_..."
\* or "异常订单") and of the workbook file ("..._出货单.xlsx") they are written to
Document(store_name, supplier, is_abnormal, lines) ==
    [store |-> store_name, supplier |-> supplier, is_abnormal |-> is_abnormal,
     lines |-> lines, book |-> create_excel(supplier, lines, is_abnormal),
     store_folder  |-> <<"U+5E97", "U+94FA", "_">> \o SafeName(store_name),
     bucket_folder |-> IF is_abnormal THEN AbnormalLabel
                       ELSE <<"U+4F9B", "U+5E94", "U+5546", "_">> \o SafeName(supplier),
     excel_name    |-> supplier \o <<"_", "U+51FA", "U+8D27", "U+5355", ".", "x", "l", "s", "x">>]

\* lines 459-465
Generate ==
    /\ pc = "ready"
    /\ IF "store" \in main_cols
       THEN /\ stores' = groupby(main_df)
            /\ pc' = "store"
            /\ outcome' = outcome
            /\ error' = error
       ELSE /\ stores' = stores
            /\ pc' = "done"
            /\ outcome' = "None"
            /\ error' = <<main_cols>>
    /\ UNCHANGED <<store_idx, supplier_orders, abnormal_orders, bucket_idx, documents, progress,
                   calcVars, mergeVars, tableVars, cacheVars>>

StoreResult(r) ==
    /\ pc' = IF r.exc = "" THEN "suppliers" ELSE "raised"
    /\ outcome' = r.exc
    /\ supplier_orders' = r.supplier_orders
    /\ abnormal_orders' = r.abnormal_orders

\* lines 466-472: the callback, then process_order_data on the store's rows
ProcessStore ==
    /\ pc = "store"
    /\ store_idx < Len(stores)
    /\ progress' = Append(progress, <<store_idx + 1, Len(stores)>>)
    /\ \E r \in {process_order_data(Self, stores[store_idx + 1].val)} : StoreResult(r)
    /\ bucket_idx' = 0
    /\ UNCHANGED <<stores, store_idx, documents, error, calcVars, mergeVars, tableVars,
                   cacheVars>>

\* lines 474-494: one turn of the loop over supplier_orders.items()
EmitSupplier ==
    /\ pc = "suppliers"
    /\ bucket_idx < Len(supplier_orders)
    /\ documents' = IF supplier_orders[bucket_idx + 1].val = <<>> THEN documents
                    ELSE Append(documents,
                                Document(stores[store_idx + 1].key,
                                         supplier_orders[bucket_idx + 1].key, FALSE,
                                         merge_orders(supplier_orders[bucket_idx + 1].val)))
    /\ supplier_orders' = [supplier_orders EXCEPT ![bucket_idx + 1].val = orders_after_merge(@)]
    /\ bucket_idx' = bucket_idx + 1
    /\ UNCHANGED <<pc, stores, store_idx, abnormal_orders, progress, outcome,
                   error, calcVars, mergeVars, tableVars, cacheVars>>

\* lines 495-509: the abnormal bucket, and on to the next store
EmitAbnormal ==
    /\ pc = "suppliers"
    /\ bucket_idx = Len(supplier_orders)
    /\ documents' = IF abnormal_orders = <<>> THEN documents
                    ELSE Append(documents,
                                Document(stores[store_idx + 1].key, AbnormalLabel, TRUE,
                                         merge_orders(abnormal_orders)))
    /\ abnormal_orders' = orders_after_merge(abnormal_orders)
    /\ store_idx' = store_idx + 1
    /\ pc' = "store"
    /\ UNCHANGED <<stores, supplier_orders, bucket_idx, progress, outcome,
                   error, calcVars, mergeVars, tableVars, cacheVars>>

\* lines 510-519
ZipOutput ==
    /\ pc = "store"
    /\ store_idx = Len(stores)
    /\ pc' = "done"
    /\ outcome' = "zip"
    /\ UNCHANGED <<stores, store_idx, supplier_orders, abnormal_orders, bucket_idx, documents,
                   progress, error, calcVars, mergeVars, tableVars, cacheVars>>

----------------------------------------------------------------------------
(* The generator scenario: an order table of a few rows, or a long one     *)
(* with more warehouses than CHINESE_NUMBERS has names, is turned into     *)
(* documents                                                               *)

MaxRows == 3

ManyWarehouses == 22

SupplierOne == <<"U+5382", "1">>

SupplierTwo == <<"U+5382", "/", "2">>

\* the token ZZ stands before the first supplier header
SupplierTable ==
    << <<<<"Z", "Z">>, Missing>>,
       <<SupplierOne, <<"A", "B">>>>,
       <<SupplierTwo, <<" ", "C", "D", " ">>>> >>

NameTable == << <<<<"A", "B">>, <<"N", "1">>>>, <<<<"C", "D">>, Missing>> >>

\* the file of product 8 is empty
BarcodeFiles ==
    << [key |-> <<"7", ".", "p">>, val |-> <<"%">>],
       [key |-> <<"8", ".", "p">>, val |-> <<>>],
       [key |-> <<"9", "?", ".", "p">>, val |-> <<"#">>] >>

ImageFiles == << [key |-> <<"A", "B", ".", "p", "n", "g">>, val |-> <<"i">>] >>

ProductTable ==
    << [id |-> <<"7">>, code |-> <<"A", "B", "-", "2", "X">>, unit |-> <<"5">>,
        detail |-> <<"d", "7">>],
       [id |-> <<"8">>, code |-> <<"C", "D">>, unit |-> Missing, detail |-> Missing] >>

OrderRow(sku, sets, id, address, warehouse, store) ==
    [sku |-> sku, sets |-> sets, id |-> id, address |-> address, warehouse |-> warehouse,
     store |-> store, seq |-> 0]

MainRowPool ==
    { OrderRow(<<"A", "B", "-", "2", "X">>, <<"3">>, <<"7">>, <<"x">>, <<"A">>, <<"S", "1">>),
      OrderRow(<<"A", "B", "-", "2", "X">>, <<"2">>, <<"7">>, <<"y">>, <<"A">>, <<"S", "1">>),
      OrderRow(<<"A", "B">>, <<"1">>, <<"8">>, <<"z">>, <<"B">>, <<"S", "1">>),
      OrderRow(<<"C", "D", "-", "1">>, <<"-", "2">>, <<"7">>, <<"v">>, <<"A">>, <<"S", ":", "2">>),
      OrderRow(<<"Q">>, <<"1">>, <<"9">>, <<"x">>, <<"B">>, <<"S", "1">>),
      OrderRow(Missing, <<"i", "n", "f">>, <<"7">>, <<"x">>, <<"A">>, <<"S", ":", "2">>),
      OrderRow(<<"Z", "Z">>, <<"4">>, <<"8">>, <<"w">>, <<"C">>, <<"S", "1">>) }

SmallTables == UNION { [1..n -> MainRowPool] : n \in 0..MaxRows }

\* n rows of n warehouses, one more row of the last warehouse and a row that
\* names no store
LongTable(n) ==
    [i \in 1..(n + 2) |->
        IF i <= n
        THEN OrderRow(<<"A", "B">>, <<"1">>, <<"7">>, <<"x">>, <<"W">> \o PyStr(i), <<"S", "1">>)
        ELSE IF i = n + 1
        THEN OrderRow(<<"A", "B">>, <<"2">>, <<"9">>, <<"x">>, <<"W">> \o PyStr(n), <<"S", "1">>)
        ELSE OrderRow(<<"A", "B">>, <<"1">>, <<"7">>, <<"x">>, <<"A">>, Missing)]

LongTables == { LongTable(n) : n \in (Len(CHINESE_NUMBERS) + 1)..ManyWarehouses }

MainColumns == {"sku", "sets", "id", "address", "warehouse", "store"}

\* the columns process_order_data and generate_all_orders may or may not find
ColumnChoices ==
    { MainColumns, MainColumns \ {"store"}, MainColumns \ {"sets", "id"},
      MainColumns \ {"address", "warehouse"} }

Init ==
    /\ pc = "new"
    /\ \/ main_df \in SmallTables /\ main_cols \in ColumnChoices
       \/ main_df \in LongTables /\ main_cols = MainColumns
    /\ sku_id_df = ProductTable
    /\ col_mapping = {"unit_qty", "sku_code", "detail"}
    /\ product_id_index = EmptyMap
    /\ supplier_sku_df = SupplierTable
    /\ sku_name_df = NameTable
    /\ barcode_files_dict = BarcodeFiles
    /\ image_files_dict = ImageFiles
    /\ supplier_sku_cache = <<>>
    /\ image_cache = <<>>
    /\ call = NoCall
    /\ found_row = NoRow
    /\ result = Ok(0)
    /\ supplier_group = NoGroup
    /\ NoLines
    /\ IdleRun

Next == Construct \/ Generate \/ ProcessStore \/ EmitSupplier \/ EmitAbnormal \/ ZipOutput

Spec == Init /\ [][Next]_vars

----------------------------------------------------------------------------
(* Claims about create_excel and process_order_data *)

Docs == { documents[k] : k \in 1..Len(documents) }

\* the smallest original sequence index of the lines of warehouse w
GroupMin(lines, w) ==
    MinSeq(SelectSeq(lines, LAMBDA o : o.warehouse = w))

WarehousesOf(lines) == { lines[i].warehouse : i \in 1..Len(lines) }

\* the position of warehouse w among the groups, counted from 1
GroupPos(lines, w) ==
    1 + Cardinality({ v \in WarehousesOf(lines) : GroupMin(lines, v) < GroupMin(lines, w) })

\* the row of line i: after the rows of the groups before its own and after the
\* lines of its group that stand before it in the list
RowOfLine(lines, i) ==
    3 + Cardinality({ j \in 1..Len(lines) :
                        \/ GroupMin(lines, lines[j].warehouse) < GroupMin(lines, lines[i].warehouse)
                        \/ lines[j].warehouse = lines[i].warehouse /\ j <= i })

RowsOfGroup(lines, w) == { RowOfLine(lines, i) : i \in { j \in 1..Len(lines) : lines[j].warehouse = w } }

FirstRow(lines, w) == CHOOSE r \in RowsOfGroup(lines, w) : \A q \in RowsOfGroup(lines, w) : r <= q

LastRow(lines, w) == CHOOSE r \in RowsOfGroup(lines, w) : \A q \in RowsOfGroup(lines, w) : r >= q

\* the label of the group at position g, counted from 1
OrdinalLabel(g) ==
    IF g <= 20 THEN <<"U+7B2C">> \o CHINESE_NUMBERS[g] \o <<"U+5355">>
    ELSE <<"U+7B2C">> \o PyStr(g) \o <<"U+5355">>

TitleMerge == [start_row |-> 1, start_column |-> 1, end_row |-> 1, end_column |-> 11]

RowsAndMerges(lines, book) ==
    /\ DOMAIN book.cells = 4..(Len(lines) + 3)
    /\ \A i \in 1..Len(lines) :
        /\ book.cells[RowOfLine(lines, i)].sku = lines[i].sku
        /\ book.cells[RowOfLine(lines, i)].id = lines[i].id
        /\ book.cells[RowOfLine(lines, i)].sets = lines[i].sets
        /\ book.cells[RowOfLine(lines, i)].total = lines[i].total
    /\ \A w \in WarehousesOf(lines) :
        /\ RowsOfGroup(lines, w) = FirstRow(lines, w)..LastRow(lines, w)
        /\ book.cells[FirstRow(lines, w)].ordinal = OrdinalLabel(GroupPos(lines, w))
        /\ book.cells[FirstRow(lines, w)].warehouse = w
        /\ \A r \in RowsOfGroup(lines, w) \ {FirstRow(lines, w)} :
               book.cells[r].ordinal = NoneVal
    /\ \A v, w \in WarehousesOf(lines) :
           v # w => book.cells[FirstRow(lines, v)].ordinal # book.cells[FirstRow(lines, w)].ordinal
    /\ Cardinality({ r \in DOMAIN book.cells : book.cells[r].ordinal # NoneVal })
           = Cardinality(WarehousesOf(lines))
    /\ book.merges \ {TitleMerge}
           = { [start_row |-> FirstRow(lines, w), start_column |-> c,
                end_row |-> LastRow(lines, w), end_column |-> c] :
                   w \in { v \in WarehousesOf(lines) : LastRow(lines, v) > FirstRow(lines, v) },
                   c \in {1, 10, 11} }

\* C8: for a bucket of N merged lines in W warehouse groups create_excel writes
\* the N data rows 4..N+3, the rows of a group next to one another and the groups
\* in group order; it writes W labels, all different, the name of CHINESE_NUMBERS
\* for the groups 1..20 and the number of the group's position after that; the
\* merges of the columns 1, 10 and 11 run from the first to the last row of each
\* group of more than one row, and there is no other merge below the title.
C8_RowsLabelsMerges ==
    \A d \in Docs : RowsAndMerges(d.lines, d.book)

\* a document of more than 20 groups whose 21st group has two rows
C8_Witness ==
    \E d \in Docs :
        /\ Cardinality(WarehousesOf(d.lines)) > 20
        /\ \E m \in d.book.merges :
            /\ m.start_row = 24 /\ m.end_row = 25 /\ m.start_column = 10
            /\ d.book.cells[24].ordinal = <<"U+7B2C", "2", "1", "U+5355">>
            /\ d.book.cells[23].ordinal = <<"U+7B2C", "U+4E8C", "U+5341", "U+5355">>

HasBarcode(lines) == { i \in 1..Len(lines) : lines[i].barcode_data # NoneVal }

BarcodeLabel(order) == PyStr(order.sets) \o <<"-", "-">> \o order.barcode_filename

\* the position in the barcode list of the entry of line i
BarcodeRank(lines, i) ==
    Cardinality({ j \in HasBarcode(lines) : RowOfLine(lines, j) <= RowOfLine(lines, i) })

BarcodesAgree(lines, book) ==
    /\ \A i \in 1..Len(lines) :
        /\ (lines[i].barcode_data # NoneVal)
               <=> Truthy(find_barcode_data(barcode_files_dict, lines[i].id).data)
        /\ book.cells[RowOfLine(lines, i)].barcode
               = IF i \in HasBarcode(lines) THEN BarcodeLabel(lines[i]) ELSE NoBarcodeMark
    /\ Len(book.barcode_files) = Cardinality(HasBarcode(lines))
    /\ \A i \in HasBarcode(lines) :
           book.barcode_files[BarcodeRank(lines, i)]
               = [name |-> BarcodeLabel(lines[i]), data |-> lines[i].barcode_data]

\* C9: in create_excel a line with a barcode payload (a file whose name contains
\* the product id and that is not empty) has the barcode cell
\* "{sets}--{filename}", sets being the set count after merging, and one entry
\* of that name and that payload in the barcode list; a line without has the
\* marker and no entry; the list has as many entries as lines with a payload.
C9_BarcodeCellAndList ==
    \A d \in Docs : BarcodesAgree(d.lines, d.book)

\* a document with a line merged from set counts 3 and 2 that has a barcode, and
\* a line whose barcode file is empty
C9_Witness ==
    \E d \in Docs :
        /\ Len(d.book.barcode_files) = 1
        /\ d.book.barcode_files[1].name = <<"5", "-", "-", "7", ".", "p">>
        /\ \E r, q \in DOMAIN d.book.cells :
            /\ d.book.cells[r].barcode = <<"5", "-", "-", "7", ".", "p">>
            /\ d.book.cells[r].sets = 5
            /\ d.book.cells[q].barcode = NoBarcodeMark
            /\ d.book.cells[q].id = <<"8">>

\* the places a line can be in: <<"s", b, k>> is the k-th line of the b-th
\* supplier bucket, <<"a", 0, k>> the k-th line of the abnormal list
Places ==
    UNION { { <<"s", b, k>> : k \in 1..Len(supplier_orders[b].val) } :
                b \in 1..Len(supplier_orders) }
        \cup { <<"a", 0, k>> : k \in 1..Len(abnormal_orders) }

LineAt(p) == IF p[1] = "s" THEN supplier_orders[p[2]].val[p[3]] ELSE abnormal_orders[p[3]]

Increasing(lines) == \A i, j \in 1..Len(lines) : i < j => lines[i].seq < lines[j].seq

ResolvedSupplier(data_row) ==
    get_supplier_group(supplier_sku_cache,
                       extract_sku_prefix(CellOf(Self, data_row, "sku", <<>>)))

InItsPlace(data_row, p) ==
    /\ LineAt(p).sku = CellOf(Self, data_row, "sku", <<>>)
    /\ LineAt(p).id = CellOf(Self, data_row, "id", <<>>)
    /\ IF ResolvedSupplier(data_row).found
       THEN p[1] = "s" /\ supplier_orders[p[2]].key = ResolvedSupplier(data_row).supplier
       ELSE p[1] = "a"

Partitioned(rows) ==
    /\ \A i \in 1..Len(rows) :
        /\ Cardinality({ p \in Places : LineAt(p).seq = rows[i].seq }) = 1
        /\ \A p \in Places : LineAt(p).seq = rows[i].seq => InItsPlace(rows[i], p)
    /\ Cardinality(Places) = Len(rows)
    /\ \A b, c \in 1..Len(supplier_orders) :
           b # c => supplier_orders[b].key # supplier_orders[c].key
    /\ \A b \in 1..Len(supplier_orders) : Increasing(supplier_orders[b].val)
    /\ Increasing(abnormal_orders)

\* C10: once process_order_data has been called on the rows of a store, every
\* row has exactly one line, in the bucket of its supplier when the supplier is
\* found and in the abnormal list when it is not; no row is dropped, none is
\* there twice, and every bucket and the abnormal list are in increasing
\* original sequence index.
C10_Partition ==
    pc \in {"suppliers", "raised"} =>
        /\ pc = "suppliers"
        /\ Partitioned(stores[store_idx + 1].val)

----------------------------------------------------------------------------
(* Claims about generate_all_orders *)

\* the number of stores whose documents have all been written
StoresCompleted == store_idx

\* C11: the progress callback of the k-th store is called once that store is
\* completed (classified, merged, grouped, assembled, its documents written),
\* once per store and with the fraction k / number of stores, so that a
\* reported fraction of 1 means that the documents of every store exist.
C11_ProgressAfterStore ==
    \A i \in 1..Len(progress) :
        /\ progress[i] = <<i, Len(stores)>>
        /\ i <= StoresCompleted

NoUnsafe(name) == \A i \in 1..Len(name) : name[i] \notin Unsafe

\* C12: no name that generate_all_orders derives from user data and builds an
\* output path with (the store folder, the supplier folder, the workbook file
\* named after the supplier, the renamed barcode files) contains one of the
\* characters \ / * ? : " < > |.
C12_SafePathNames ==
    \A d \in Docs :
        /\ NoUnsafe(d.store_folder)
        /\ NoUnsafe(d.bucket_folder)
        /\ NoUnsafe(d.excel_name)
        /\ \A k \in 1..Len(d.book.barcode_files) : NoUnsafe(d.book.barcode_files[k].name)

\* the columns of the table given to the constructor, which adds only seq
InputColumns == main_cols \ {"seq"}

\* C13: without a store column in the order table generate_all_orders handles
\* no store, writes no document and no archive, and reports an error that names
\* exactly the columns of the order table it was given.
C13_NoStoreColumn ==
    (pc \notin {"new", "failed", "ready"} /\ "store" \notin main_cols) =>
        /\ pc = "done" /\ outcome = "None"
        /\ stores = <<>> /\ progress = <<>> /\ documents = <<>>
        /\ error = <<InputColumns>>

\* the lines process_order_data has put in the buckets of the store at hand
BucketLines ==
    UNION ({ { supplier_orders[b].val[i] : i \in 1..Len(supplier_orders[b].val) } :
                 b \in 1..Len(supplier_orders) }
           \cup { { abnormal_orders[i] : i \in 1..Len(abnormal_orders) } })

\* the lines merge_orders has made for the books
BookLines == UNION { { d.lines[i] : i \in 1..Len(d.lines) } : d \in Docs }

\* the barcode labels of the books
BookLabels ==
    UNION { { d.book.barcode_files[k].name : k \in 1..Len(d.book.barcode_files) } : d \in Docs }

\* C17: every line process_order_data puts in a bucket and every line
\* merge_orders makes of such lines has a set count >= 0 and a total quantity
\* >= 0, whatever the raw sets value; no barcode label begins with a negative
\* count; and a merged line of the store at hand has a set count not smaller
\* than that of any bucket line of its key.
C17_NonNegativeCounts ==
    /\ \A o \in BucketLines \cup BookLines : o.sets >= 0 /\ o.total >= 0
    /\ \A name \in BookLabels : name[1] # "-"
    /\ pc = "suppliers" =>
           \A d \in Docs : \A b \in 1..Len(supplier_orders) :
               (d.store = stores[store_idx + 1].key /\ ~d.is_abnormal
                    /\ d.supplier = supplier_orders[b].key) =>
                   \A i \in 1..Len(d.lines) : \A j \in 1..Len(supplier_orders[b].val) :
                       MergeKey(d.lines[i]) = MergeKey(supplier_orders[b].val[j]) =>
                           d.lines[i].sets >= supplier_orders[b].val[j].sets

----------------------------------------------------------------------------
(* The resolver scenario: a supplier table of a few cells is indexed by    *)
(* the constructor, then get_supplier_group is called once                 *)

MaxSupplierRows == 3

\* header cells, tokens that contain one another, a blank cell and no cell
SupplierCellPool ==
    { <<"U+5382", "1">>, <<"U+5382", "2">>, <<"A">>, <<"A", "B">>, <<" ", "B", " ">>,
      <<" ">>, Missing }

PrefixPool == { <<>>, <<"A">>, <<"B">>, <<"A", "B">>, <<"A", "B", "C">>, <<"Q">> }

InitResolve ==
    /\ pc = "new"
    /\ \E n \in 0..MaxSupplierRows :
           \E cells \in [1..n -> SupplierCellPool] :
               supplier_sku_df = [i \in 1..n |-> <<cells[i]>>]
    /\ main_df = <<>>
    /\ main_cols = {}
    /\ sku_name_df = <<>>
    /\ barcode_files_dict = <<>>
    /\ image_files_dict = <<>>
    /\ supplier_sku_cache = <<>>
    /\ image_cache = <<>>
    /\ sku_id_df = <<>>
    /\ col_mapping = {}
    /\ product_id_index = EmptyMap
    /\ call = NoCall
    /\ found_row = NoRow
    /\ result = Ok(0)
    /\ supplier_group = NoGroup
    /\ NoLines
    /\ IdleRun

GetSupplierGroup ==
    /\ pc = "ready"
    /\ \E sku_prefix \in PrefixPool :
        /\ call' = [NoCall EXCEPT !.op = "get_supplier", !.sku = sku_prefix]
        /\ supplier_group' = get_supplier_group(supplier_sku_cache, sku_prefix)
    /\ pc' = "returned"
    /\ UNCHANGED <<sku_id_df, col_mapping, product_id_index, found_row, result, mergeVars,
                   tableVars, cacheVars, runVars>>

NextResolve == Construct \/ GetSupplierGroup

SpecResolve == InitResolve /\ [][NextResolve]_vars

----------------------------------------------------------------------------
(* Claims about get_supplier_group *)

\* the keys of the supplier index that are equal to the prefix
ExactKeys(prefix) == { i \in 1..Len(supplier_sku_cache) : supplier_sku_cache[i].key = prefix }

\* the keys that the prefix contains or that contain the prefix
RelatedKeys(prefix) ==
    { i \in 1..Len(supplier_sku_cache) :
        \/ Contains(prefix, supplier_sku_cache[i].key)
        \/ Contains(supplier_sku_cache[i].key, prefix) }

FirstIn(S) == CHOOSE i \in S : \A j \in S : i <= j

NotFound == [supplier |-> OtherSupplier, found |-> FALSE]

\* C15: get_supplier_group(prefix) returns the supplier of the key prefix when
\* prefix is a key of the supplier index, whatever other keys contain it or are
\* contained in it; else the supplier of the first key in insertion order that
\* prefix contains or that contains prefix; it returns ("其他供应商", false)
\* exactly when prefix is empty or no key is equal to, contained in or
\* containing prefix, and found is true in every other case.
C15_SupplierGroup ==
    call.op = "get_supplier" =>
        /\ (call.sku # <<>> /\ ExactKeys(call.sku) # {})
               => supplier_group = supplier_sku_cache[FirstIn(ExactKeys(call.sku))].val
        /\ (call.sku # <<>> /\ ExactKeys(call.sku) = {} /\ RelatedKeys(call.sku) # {})
               => supplier_group = supplier_sku_cache[FirstIn(RelatedKeys(call.sku))].val
        /\ supplier_group = NotFound <=> (call.sku = <<>> \/ RelatedKeys(call.sku) = {})
        /\ supplier_group # NotFound => supplier_group.found

\* the prefix is a key of the index, and an earlier key of another supplier is
\* contained in it
C15_Witness ==
    /\ call.op = "get_supplier"
    /\ ExactKeys(call.sku) # {}
    /\ FirstIn(RelatedKeys(call.sku)) < FirstIn(ExactKeys(call.sku))
    /\ supplier_sku_cache[FirstIn(RelatedKeys(call.sku))].key # <<>>
    /\ supplier_sku_cache[FirstIn(RelatedKeys(call.sku))].val # supplier_group
    /\ supplier_group.found

====
